---- MODULE Spec2Model ----
(* A model of actix-identity's Identity (src/actix-identity/src/identity.rs):  *)
(* the login / logout / extract / query protocol over one request's session.  *)
(* The Session collaborator (actix-session) is modelled from its contract.    *)
EXTENDS Integers, Sequences, FiniteSets, TLC

(* ---------------------------------------------------------------- bounds *)
MaxClock == 1
MaxHandles == 2
MaxSid == 2

(* ------------------------------------------------------------------ keys *)
id_key == "nervemq-id"
login_unix_timestamp_key == "login-timestamp"
last_visit_unix_timestamp_key == "last-visit-timestamp"
other_key == "cart"

IdentityKeys == {id_key, login_unix_timestamp_key, last_visit_unix_timestamp_key}
Keys == IdentityKeys \cup {other_key}

Ids == {"u1", "u2"}

(* ------------------------------------------------- serde_json::Value model *)
(* kind "absent" stands for a key that is not in the session map.            *)
Absent == [kind |-> "absent", s |-> "", n |-> 0]
Str(x) == [kind |-> "string", s |-> x, n |-> 0]
Num(x) == [kind |-> "number", s |-> "", n |-> x]
(* an integer that fits i64 but lies outside the range of OffsetDateTime *)
BigNum == [kind |-> "number", s |-> "big", n |-> 0]
Null == [kind |-> "null", s |-> "", n |-> 0]
Bool == [kind |-> "bool", s |-> "", n |-> 0]
Array == [kind |-> "array", s |-> "", n |-> 0]
Object == [kind |-> "object", s |-> "", n |-> 0]

(* ------------------------------------------------------------- results *)
Res(k) == [kind |-> k, s |-> "", n |-> 0]
OkStr(x) == [kind |-> "Ok", s |-> x, n |-> 0]
SomeTime(t) == [kind |-> "Some", s |-> "", n |-> t]
InvalidIdType(k) == [kind |-> "InvalidIdType", s |-> k, n |-> 0]
NoRes == Res("none")

VARIABLES
  ext,       \* TRUE iff an IdentityInner is present in the request extensions
  inner,     \* the IdentityInner configuration
  session,   \* the request's session, shared by every handle
  handles,   \* number of live Identity handles
  clock,     \* the UTC clock, in seconds
  last,      \* the last call made and what it returned
  logged_out \* history: logout has run and no login has succeeded since

vars == <<ext, inner, session, handles, clock, last, logged_out>>

(* ------------------------------------------------ Session (collaborator) *)
get_value(sess, key) == sess.attrs[key]

(* Session::get::<String>: Ok(None) when absent, an error when not a string *)
get_string(sess, key) ==
  LET v == sess.attrs[key] IN
  IF v.kind = "absent" THEN Res("None")
  ELSE IF v.kind = "string" THEN OkStr(v.s)
  ELSE Res("SessionGetError")

(* Session::get::<i64>: Ok(None) when absent, an error when not an integer *)
get_i64(sess, key) ==
  LET v == sess.attrs[key] IN
  IF v.kind = "absent" THEN Res("None")
  ELSE IF v.kind = "number" THEN [kind |-> "Ok", s |-> v.s, n |-> v.n]
  ELSE Res("SessionGetError")

(* Session::insert: fails on a destroyed session or on a write fault, and   *)
(* then leaves the session as it was.                                        *)
insert(sess, key, value, fault) ==
  IF sess.purged \/ fault
  THEN [ok |-> FALSE, sess |-> sess]
  ELSE [ok |-> TRUE, sess |-> [sess EXCEPT !.attrs[key] = value]]

remove(sess, key) ==
  IF sess.purged THEN sess ELSE [sess EXCEPT !.attrs[key] = Absent]

(* Session::renew: rotates the identifier, keeps the attributes *)
renew(sess) == [sess EXCEPT !.sid = sess.sid + 1]

(* Session::purge: destroys the session and every attribute *)
purge(sess) ==
  [sess EXCEPT !.attrs = [k \in Keys |-> Absent], !.purged = TRUE]

(* OffsetDateTime::from_unix_timestamp: a range error outside year +-9999 *)
from_unix_timestamp(r) ==
  IF r.kind = "Ok"
  THEN IF r.s = "big" THEN Res("SessionExpiryError") ELSE SomeTime(r.n)
  ELSE r

(* --------------------------------------------------------- IdentityInner *)
(* mutant: a null under the id key is taken for a missing identity *)
get_identity_null_as_missing(sess) ==
  LET value == get_value(sess, id_key) IN
  IF value.kind \in {"absent", "null"} THEN Res("MissingIdentity")
  ELSE IF value.kind = "string" THEN OkStr(value.s)
  ELSE InvalidIdType(value.kind)

get_identity(sess) ==
  LET value == get_value(sess, id_key) IN
  IF value.kind = "absent" THEN Res("MissingIdentity")
  ELSE IF value.kind = "string" THEN OkStr(value.s)
  ELSE IF value.kind = "null" THEN InvalidIdType("null")
  ELSE IF value.kind = "bool" THEN InvalidIdType("bool")
  ELSE IF value.kind = "number" THEN InvalidIdType("number")
  ELSE IF value.kind = "array" THEN InvalidIdType("array")
  ELSE InvalidIdType("object")

(* -------------------------------------------------------------- Identity *)
(* mutant: id() goes through get_identity and reports MissingIdentity *)
id_as_get_identity(sess) ==
  LET r == get_string(sess, id_key) IN
  IF r.kind = "None" THEN Res("MissingIdentity") ELSE r

id(sess) ==
  LET r == get_string(sess, id_key) IN
  IF r.kind = "None" THEN Res("LostIdentity") ELSE r

W(key, ok) == [op |-> "insert", key |-> key, ok |-> ok]
RenewOp == [op |-> "renew", key |-> "", ok |-> TRUE]

(* The steps of login, each taking and returning [ok, sess, trace]: ok is    *)
(* FALSE once a `?` has returned early, and the later steps then do nothing. *)
(* fail names the key whose write faults (or "none").                        *)
Step(st, key, value, fail) ==
  LET w == insert(st.sess, key, value, fail = key) IN
  [ok |-> w.ok, sess |-> w.sess, trace |-> Append(st.trace, W(key, w.ok))]

(* mutant: the id is written only when the session holds none yet *)
login_write_id_keeps_existing(st, uid, fail) ==
  IF ~st.ok THEN st
  ELSE IF st.sess.attrs[id_key] # Absent /\ ~st.sess.purged /\ fail # id_key
  THEN [ok |-> TRUE, sess |-> st.sess, trace |-> Append(st.trace, W(id_key, TRUE))]
  ELSE Step(st, id_key, Str(uid), fail)

(* inner.session.insert(inner.id_key, id)? *)
login_write_id(st, uid, fail) ==
  IF ~st.ok THEN st ELSE Step(st, id_key, Str(uid), fail)

(* mutant: the result of the login-timestamp write is dropped *)
login_write_login_timestamp_unchecked(cfg, st, now, fail) ==
  IF ~st.ok THEN st
  ELSE IF cfg.is_login_deadline_enabled
  THEN [Step(st, login_unix_timestamp_key, Num(now), fail) EXCEPT !.ok = TRUE]
  ELSE st

(* if inner.is_login_deadline_enabled { insert(login_unix_timestamp_key, now)? } *)
login_write_login_timestamp(cfg, st, now, fail) ==
  IF ~st.ok THEN st
  ELSE IF cfg.is_login_deadline_enabled
  THEN Step(st, login_unix_timestamp_key, Num(now), fail)
  ELSE st

(* mutant: the last-visit write is guarded by the login-deadline flag *)
login_write_visit_timestamp_wrong_flag(cfg, st, now, fail) ==
  IF ~st.ok THEN st
  ELSE IF cfg.is_login_deadline_enabled
  THEN Step(st, last_visit_unix_timestamp_key, Num(now), fail)
  ELSE st

(* if inner.is_visit_deadline_enabled { insert(last_visit_unix_timestamp_key, now)? } *)
login_write_visit_timestamp(cfg, st, now, fail) ==
  IF ~st.ok THEN st
  ELSE IF cfg.is_visit_deadline_enabled
  THEN Step(st, last_visit_unix_timestamp_key, Num(now), fail)
  ELSE st

(* mutant: login returns without renewing the session *)
login_no_renew(st) == st

(* mutant: the session is renewed on the error path too *)
login_renew_always(st) ==
  [ok |-> st.ok, sess |-> renew(st.sess), trace |-> Append(st.trace, RenewOp)]

(* inner.session.renew(); Ok(Self(inner)) *)
login_renew(st) ==
  IF ~st.ok THEN st
  ELSE [ok |-> TRUE, sess |-> renew(st.sess), trace |-> Append(st.trace, RenewOp)]

(* mutant: the session is renewed before the attributes are written *)
login_renews_first(cfg, sess, uid, now, fail) ==
  LET s0 == [ok |-> TRUE, sess |-> sess, trace |-> <<>>]
      s1 == login_renew(s0)
      s2 == login_write_id(s1, uid, fail)
      s3 == login_write_login_timestamp(cfg, s2, now, fail)
      s4 == login_write_visit_timestamp(cfg, s3, now, fail)
  IN [res |-> IF s4.ok THEN OkStr(uid) ELSE Res("LoginError"),
      sess |-> s4.sess, trace |-> s4.trace]

(* login once IdentityInner::extract has found the IdentityInner; now is the *)
(* clock reading login takes.                                                *)
login(cfg, sess, uid, now, fail) ==
  LET s0 == [ok |-> TRUE, sess |-> sess, trace |-> <<>>]
      s1 == login_write_id(s0, uid, fail)
      s2 == login_write_login_timestamp(cfg, s1, now, fail)
      s3 == login_write_visit_timestamp(cfg, s2, now, fail)
      s4 == login_renew(s3)
  IN [res |-> IF s4.ok THEN OkStr(uid) ELSE Res("LoginError"),
      sess |-> s4.sess, trace |-> s4.trace]

(* mutant: logout also rotates the session identifier *)
logout_renews(cfg, sess) ==
  IF cfg.logout_behaviour = "PurgeSession"
  THEN purge(sess)
  ELSE
  LET s1 == remove(sess, id_key)
      s2 == IF cfg.is_login_deadline_enabled
            THEN remove(s1, login_unix_timestamp_key) ELSE s1
      s3 == IF cfg.is_visit_deadline_enabled
            THEN remove(s2, last_visit_unix_timestamp_key) ELSE s2
  IN renew(s3)

(* mutant: logout removes the three identity keys whatever the flags *)
logout_removes_all_keys(cfg, sess) ==
  IF cfg.logout_behaviour = "PurgeSession"
  THEN purge(sess)
  ELSE remove(remove(remove(sess, id_key), login_unix_timestamp_key),
              last_visit_unix_timestamp_key)

(* mutant: logout purges the session whatever the policy *)
logout_always_purges(cfg, sess) == purge(sess)

logout(cfg, sess) ==
  IF cfg.logout_behaviour = "PurgeSession"
  THEN purge(sess)
  ELSE
  LET s1 == remove(sess, id_key)
      s2 == IF cfg.is_login_deadline_enabled
            THEN remove(s1, login_unix_timestamp_key) ELSE s1
  IN IF cfg.is_visit_deadline_enabled
     THEN remove(s2, last_visit_unix_timestamp_key) ELSE s2

extract(sess) == get_identity(sess)

logged_at(sess) == from_unix_timestamp(get_i64(sess, login_unix_timestamp_key))

last_visited_at(sess) ==
  from_unix_timestamp(get_i64(sess, last_visit_unix_timestamp_key))

(* mutant: the timestamp is written under the login-timestamp key *)
set_last_visited_at_wrong_key(sess, now, fault) ==
  LET w == insert(sess, login_unix_timestamp_key, Num(now), fault) IN
  [res |-> IF w.ok THEN Res("Ok") ELSE Res("LoginError"), sess |-> w.sess,
   trace |-> <<W(login_unix_timestamp_key, w.ok)>>]

set_last_visited_at(sess, now, fault) ==
  LET w == insert(sess, last_visit_unix_timestamp_key, Num(now), fault) IN
  [res |-> IF w.ok THEN Res("Ok") ELSE Res("LoginError"), sess |-> w.sess,
   trace |-> <<W(last_visit_unix_timestamp_key, w.ok)>>]

(* StatusCode::UNAUTHORIZED *)
UNAUTHORIZED == 401

(* mutant: the error keeps the default response of an internal error *)
from_request_internal_error(sess) ==
  LET r == extract(sess) IN
  IF r.kind = "Ok" THEN r
  ELSE [kind |-> "Error", s |-> r.kind, n |-> 500]

(* impl FromRequest for Identity: an error becomes a 401 response *)
from_request(sess) ==
  LET r == extract(sess) IN
  IF r.kind = "Ok" THEN r
  ELSE [kind |-> "Error", s |-> r.kind, n |-> UNAUTHORIZED]

(* Option<Identity> as an extractor: the error is replaced by None *)
from_request_option(sess) ==
  LET r == from_request(sess) IN
  IF r.kind = "Ok" THEN [kind |-> "Some", s |-> r.s, n |-> 0] ELSE Res("None")

(* ------------------------------------------------------------- the state *)
Configs ==
  [logout_behaviour : {"PurgeSession", "DeleteIdentityKeys"},
   is_login_deadline_enabled : BOOLEAN,
   is_visit_deadline_enabled : BOOLEAN]

(* what a session loaded from the store may hold under each key *)
IdValues == {Absent, Str("u1"), Null, Bool, Num(0), Array, Object}
TimestampValues == {Absent, Num(0), BigNum}
OtherValues == {Absent, Str("apples")}

InitialAttrs ==
  {a \in [Keys -> IdValues \cup TimestampValues \cup OtherValues] :
     /\ a[id_key] \in IdValues
     /\ a[login_unix_timestamp_key] \in TimestampValues
     /\ a[last_visit_unix_timestamp_key] \in TimestampValues
     /\ a[other_key] \in OtherValues}

(* fail is the write fault injected into the call ("none" when there is none) *)
Call(op, arg, fail, res, pre, t0, t1, trace) ==
  [op |-> op, arg |-> arg, fail |-> fail, res |-> res, pre |-> pre, t0 |-> t0,
   t1 |-> t1, trace |-> trace]

Init ==
  /\ ext \in BOOLEAN
  /\ inner \in Configs
  /\ session \in [attrs : InitialAttrs, sid : {0}, purged : {FALSE}]
  /\ handles = 0
  /\ clock = 0
  /\ last = Call("none", "", "none", NoRes, session, 0, 0, <<>>)
  /\ logged_out = FALSE

(* mutant: a missing IdentityInner is reported as a missing identity *)
Panic_as_missing_identity(op, arg) ==
  /\ ~ext
  /\ last' = Call(op, arg, "none", Res("MissingIdentity"), session, clock, clock, <<>>)
  /\ UNCHANGED <<ext, inner, session, handles, clock, logged_out>>

(* IdentityInner::extract panics when the middleware left no IdentityInner *)
Panic(op, arg) ==
  /\ ~ext
  /\ last' = Call(op, arg, "none", Res("Panic"), session, clock, clock, <<>>)
  /\ UNCHANGED <<ext, inner, session, handles, clock, logged_out>>

Login(uid, fail, d, e) ==
  \/ Panic("login", uid)
  \/ /\ ext
     /\ handles < MaxHandles
     /\ session.sid < MaxSid
     /\ clock + d <= MaxClock
     /\ e <= d
     /\ LET r == login(inner, session, uid, clock + e, fail) IN
        /\ session' = r.sess
        /\ handles' = IF r.res.kind = "Ok" THEN handles + 1 ELSE handles
        /\ clock' = clock + d
        /\ last' = Call("login", uid, fail, r.res, session, clock, clock + d, r.trace)
        /\ logged_out' = IF r.res.kind = "Ok" THEN FALSE ELSE logged_out
     /\ UNCHANGED <<ext, inner>>

(* mutant: extract drops an id of the wrong type from the session *)
Extract_removes_invalid_id ==
  \/ Panic("extract", "")
  \/ /\ ext
     /\ handles < MaxHandles
     /\ LET r == extract(session) IN
        /\ handles' = IF r.kind = "Ok" THEN handles + 1 ELSE handles
        /\ last' = Call("extract", "", "none", r, session, clock, clock, <<>>)
        /\ session' = IF r.kind = "InvalidIdType" THEN remove(session, id_key)
                      ELSE session
     /\ UNCHANGED <<ext, inner, clock, logged_out>>

Extract ==
  \/ Panic("extract", "")
  \/ /\ ext
     /\ handles < MaxHandles
     /\ LET r == extract(session) IN
        /\ handles' = IF r.kind = "Ok" THEN handles + 1 ELSE handles
        /\ last' = Call("extract", "", "none", r, session, clock, clock, <<>>)
     /\ UNCHANGED <<ext, inner, session, clock, logged_out>>

FromRequest ==
  \/ Panic("from_request", "")
  \/ /\ ext
     /\ handles < MaxHandles
     /\ LET r == from_request(session) IN
        /\ handles' = IF r.kind = "Ok" THEN handles + 1 ELSE handles
        /\ last' = Call("from_request", "", "none", r, session, clock, clock, <<>>)
     /\ UNCHANGED <<ext, inner, session, clock, logged_out>>

FromRequestOption ==
  \/ Panic("from_request_option", "")
  \/ /\ ext
     /\ handles < MaxHandles
     /\ LET r == from_request_option(session) IN
        /\ handles' = IF r.kind = "Some" THEN handles + 1 ELSE handles
        /\ last' = Call("from_request_option", "", "none", r, session, clock, clock, <<>>)
     /\ UNCHANGED <<ext, inner, session, clock, logged_out>>

IdCall ==
  /\ handles > 0
  /\ last' = Call("id", "", "none", id(session), session, clock, clock, <<>>)
  /\ UNCHANGED <<ext, inner, session, handles, clock, logged_out>>

Logout ==
  /\ handles > 0
  /\ session' = logout(inner, session)
  /\ handles' = handles - 1
  /\ last' = Call("logout", "", "none", Res("Ok"), session, clock, clock, <<>>)
  /\ logged_out' = TRUE
  /\ UNCHANGED <<ext, inner, clock>>

LoggedAt ==
  /\ handles > 0
  /\ last' = Call("logged_at", "", "none", logged_at(session), session, clock, clock, <<>>)
  /\ UNCHANGED <<ext, inner, session, handles, clock, logged_out>>

LastVisitedAt ==
  /\ handles > 0
  /\ last' = Call("last_visited_at", "", "none", last_visited_at(session), session,
                  clock, clock, <<>>)
  /\ UNCHANGED <<ext, inner, session, handles, clock, logged_out>>

SetLastVisitedAt(fault, d, e) ==
  /\ handles > 0
  /\ clock + d <= MaxClock
  /\ e <= d
  /\ LET r == set_last_visited_at(session, clock + e, fault) IN
     /\ session' = r.sess
     /\ clock' = clock + d
     /\ last' = Call("set_last_visited_at", "",
                     IF fault THEN last_visit_unix_timestamp_key ELSE "none", r.res, session, clock, clock + d,
                     r.trace)
  /\ UNCHANGED <<ext, inner, handles, logged_out>>

(* an Identity goes out of scope *)
Drop ==
  /\ handles > 0
  /\ handles' = handles - 1
  /\ UNCHANGED <<ext, inner, session, clock, last, logged_out>>

Tick ==
  /\ clock < MaxClock
  /\ clock' = clock + 1
  /\ UNCHANGED <<ext, inner, session, handles, last, logged_out>>

Faults == IdentityKeys \cup {"none"}

Next ==
  \/ \E uid \in Ids, fail \in Faults, d \in 0..1, e \in 0..1 : Login(uid, fail, d, e)
  \/ Extract
  \/ FromRequest
  \/ FromRequestOption
  \/ IdCall
  \/ Logout
  \/ LoggedAt
  \/ LastVisitedAt
  \/ \E fault \in BOOLEAN, d \in 0..1, e \in 0..1 : SetLastVisitedAt(fault, d, e)
  \/ Drop
  \/ Tick

Spec == Init /\ [][Next]_vars

(* ================================================================ claims *)
LoginOk == last.op = "login" /\ last.res.kind = "Ok"
LoginFailed == last.op = "login" /\ last.res.kind = "LoginError"

(* the writes login attempts under a configuration, if none before it fails *)
AttemptedWrites(cfg) ==
  {id_key}
  \cup (IF cfg.is_login_deadline_enabled THEN {login_unix_timestamp_key} ELSE {})
  \cup (IF cfg.is_visit_deadline_enabled THEN {last_visit_unix_timestamp_key} ELSE {})

(* C1: in every configuration, right after a login(id) that returned Ok,    *)
(* id() on the session returns exactly that id, whatever the id key held     *)
(* before the login.                                                         *)
C1_LoginThenId == LoginOk => id(session) = OkStr(last.arg)

(* a login succeeded over a session that held another id *)
C1_Witness ==
  /\ LoginOk
  /\ last.pre.attrs[id_key].kind = "string"
  /\ last.pre.attrs[id_key].s # last.arg
  /\ id(session) = OkStr(last.arg)

(* C2: once logout has run, extract on the same session fails with          *)
(* MissingIdentity, and keeps failing until a new login succeeds.            *)
C2_LogoutThenExtractMissing ==
  logged_out => extract(session) = Res("MissingIdentity")

(* C3: logout under DeleteIdentityKeys leaves every attribute whose key is   *)
(* not one of the three identity keys as it was.                             *)
C3_LogoutKeepsOtherAttributes ==
  (last.op = "logout" /\ inner.logout_behaviour = "DeleteIdentityKeys")
    => \A k \in Keys \ IdentityKeys : session.attrs[k] = last.pre.attrs[k]

(* a DeleteIdentityKeys logout removed the id and kept the pre-seeded cart *)
C3_Witness ==
  /\ last.op = "logout"
  /\ inner.logout_behaviour = "DeleteIdentityKeys"
  /\ last.pre.attrs[id_key] # Absent
  /\ session.attrs[id_key] = Absent
  /\ last.pre.attrs[other_key] # Absent
  /\ session.attrs[other_key] = last.pre.attrs[other_key]

(* C4: when login returns LoginError on a session that held no id, the id    *)
(* key is still absent afterwards and extract fails with MissingIdentity,    *)
(* whichever write failed.                                                   *)
C4_FailedLoginEstablishesNothing ==
  (LoginFailed /\ last.pre.attrs[id_key] = Absent)
    => /\ session.attrs[id_key] = Absent
       /\ extract(session) = Res("MissingIdentity")

(* C5: login returns LoginError exactly when one of the writes it attempts   *)
(* fails, and Ok exactly when every attempted write succeeded.               *)
C5_LoginErrorIffWriteFails ==
  (last.op = "login" /\ last.res.kind # "Panic")
    => /\ last.res.kind \in {"Ok", "LoginError"}
       /\ last.res.kind = "LoginError"
            <=> (last.pre.purged \/ last.fail \in AttemptedWrites(inner))

(* the last-visit write failed after the id and login-timestamp writes *)
C5_Witness ==
  /\ LoginFailed
  /\ inner.is_login_deadline_enabled
  /\ inner.is_visit_deadline_enabled
  /\ last.fail = last_visit_unix_timestamp_key
  /\ ~last.pre.purged

(* C6: extract classifies the value under id_key exhaustively (absent ->     *)
(* MissingIdentity, string -> Ok, any other kind -> InvalidIdType naming     *)
(* that kind) and does not modify the session.                               *)
C6_ExtractClassifies ==
  (last.op = "extract" /\ last.res.kind # "Panic")
    => LET v == last.pre.attrs[id_key] IN
       /\ v.kind \in {"absent", "string", "null", "bool", "number", "array", "object"}
       /\ v.kind = "absent" => last.res = Res("MissingIdentity")
       /\ v.kind = "string" => last.res = OkStr(v.s)
       /\ v.kind \notin {"absent", "string"} => last.res = InvalidIdType(v.kind)
       /\ session = last.pre

(* extract met a number under the id key *)
C6_Witness ==
  /\ last.op = "extract"
  /\ last.pre.attrs[id_key].kind = "number"
  /\ last.res = InvalidIdType("number")

(* C7: id() reads the session on every call: when the id key is absent at    *)
(* call time it fails with LostIdentity and returns no earlier id.           *)
C7_IdRevalidates ==
  (last.op = "id" /\ last.pre.attrs[id_key] = Absent)
    => last.res = Res("LostIdentity")

(* a live handle called id() after another handle on the session logged out *)
C7_Witness ==
  /\ last.op = "id"
  /\ logged_out
  /\ last.pre.attrs[id_key] = Absent
  /\ last.res = Res("LostIdentity")

(* C8: extracting a bare Identity from a request yields the Identity exactly *)
(* when extract succeeds and otherwise an error whose response is 401;       *)
(* extracting Option<Identity> yields None in those same cases.              *)
C8_ExtractorUnauthorized ==
  /\ (last.op = "from_request" /\ last.res.kind # "Panic")
       => LET r == extract(last.pre) IN
          IF r.kind = "Ok"
          THEN last.res = r
          ELSE last.res.kind = "Error" /\ last.res.n = 401 /\ last.res.s = r.kind
  /\ (last.op = "from_request_option" /\ last.res.kind # "Panic")
       => LET r == extract(last.pre) IN
          IF r.kind = "Ok"
          THEN last.res.kind = "Some" /\ last.res.s = r.s
          ELSE last.res = Res("None")

(* a bare Identity was extracted from a session with a non-string id *)
C8_Witness ==
  /\ last.op = "from_request"
  /\ last.res.kind = "Error"
  /\ last.res.s = "InvalidIdType"
  /\ last.res.n = 401

(* C9: a successful login renews the session (its identifier differs from    *)
(* the one before) and the id and the timestamps that login wrote are        *)
(* readable afterwards.                                                      *)
C9_LoginRenews ==
  LoginOk
    => /\ session.sid # last.pre.sid
       /\ id(session) = OkStr(last.arg)
       /\ inner.is_login_deadline_enabled
            => /\ logged_at(session).kind = "Some"
               /\ Num(logged_at(session).n) = session.attrs[login_unix_timestamp_key]
       /\ inner.is_visit_deadline_enabled
            => /\ last_visited_at(session).kind = "Some"
               /\ Num(last_visited_at(session).n)
                    = session.attrs[last_visit_unix_timestamp_key]

(* a second login on an already renewed session, with both deadlines on *)
C9_Witness ==
  /\ LoginOk
  /\ inner.is_login_deadline_enabled
  /\ inner.is_visit_deadline_enabled
  /\ last.pre.sid = 1
  /\ session.sid = 2

(* C10: a successful login writes the login timestamp iff the login deadline *)
(* is enabled and the last-visit timestamp iff the visit deadline is         *)
(* enabled; on a session with no prior timestamps the query right after      *)
(* login returns a time within the call's window when enabled, and empty     *)
(* when disabled.                                                            *)
C10_TimestampsFollowFlags ==
  LoginOk
    => /\ IF inner.is_login_deadline_enabled
          THEN /\ logged_at(session).kind = "Some"
               /\ last.t0 <= logged_at(session).n
               /\ logged_at(session).n <= last.t1
          ELSE /\ session.attrs[login_unix_timestamp_key]
                    = last.pre.attrs[login_unix_timestamp_key]
               /\ last.pre.attrs[login_unix_timestamp_key] = Absent
                    => logged_at(session) = Res("None")
       /\ IF inner.is_visit_deadline_enabled
          THEN /\ last_visited_at(session).kind = "Some"
               /\ last.t0 <= last_visited_at(session).n
               /\ last_visited_at(session).n <= last.t1
          ELSE /\ session.attrs[last_visit_unix_timestamp_key]
                    = last.pre.attrs[last_visit_unix_timestamp_key]
               /\ last.pre.attrs[last_visit_unix_timestamp_key] = Absent
                    => last_visited_at(session) = Res("None")

(* login deadline on, visit deadline off, no prior timestamps, and the      *)
(* clock moved during the call                                              *)
C10_Witness ==
  /\ LoginOk
  /\ inner.is_login_deadline_enabled
  /\ ~inner.is_visit_deadline_enabled
  /\ last.pre.attrs[login_unix_timestamp_key] = Absent
  /\ last.pre.attrs[last_visit_unix_timestamp_key] = Absent
  /\ last.t0 < last.t1
  /\ logged_at(session).kind = "Some"
  /\ last_visited_at(session) = Res("None")

(* C11: logged_at() returns empty whenever login-deadline tracking is        *)
(* disabled or the login timestamp key is absent, whatever the session holds. *)
C11_LoggedAtEmptyWhenUntracked ==
  (/\ last.op = "logged_at"
   /\ \/ ~inner.is_login_deadline_enabled
      \/ last.pre.attrs[login_unix_timestamp_key] = Absent)
    => last.res = Res("None")

(* C12: last_visited_at() returns empty whenever visit-deadline tracking is  *)
(* disabled or the last-visit key is absent, after any sequence of login,    *)
(* set_last_visited_at and logout calls.                                     *)
C12_LastVisitedAtEmptyWhenUntracked ==
  (/\ last.op = "last_visited_at"
   /\ \/ ~inner.is_visit_deadline_enabled
      \/ last.pre.attrs[last_visit_unix_timestamp_key] = Absent)
    => last.res = Res("None")

(* C13: after a successful set_last_visited_at, last_visited_at() returns a  *)
(* time within the call's clock window; and across a login or                *)
(* set_last_visited_at call the value last_visited_at() returns does not     *)
(* decrease.                                                                 *)
C13_VisitTimestampMonotonic ==
  /\ (last.op = "set_last_visited_at" /\ last.res.kind = "Ok")
       => /\ last_visited_at(session).kind = "Some"
          /\ last.t0 <= last_visited_at(session).n
          /\ last_visited_at(session).n <= last.t1
  /\ (/\ last.op \in {"login", "set_last_visited_at"}
      /\ last_visited_at(last.pre).kind = "Some"
      /\ last_visited_at(session).kind = "Some")
       => last_visited_at(last.pre).n <= last_visited_at(session).n

(* set_last_visited_at moved an earlier last-visit time forward *)
C13_Witness ==
  /\ last.op = "set_last_visited_at"
  /\ last.res.kind = "Ok"
  /\ last_visited_at(last.pre).kind = "Some"
  /\ last_visited_at(session).kind = "Some"
  /\ last_visited_at(last.pre).n < last_visited_at(session).n

(* the place of a key in the order login writes them *)
WriteRank(key) ==
  IF key = id_key THEN 1
  ELSE IF key = login_unix_timestamp_key THEN 2
  ELSE 3

(* C14: within login the id write comes first, then the login-timestamp      *)
(* write, then the last-visit write, and the renewal strictly last: nothing   *)
(* is written after renew and renew never precedes a successful id write.     *)
C14_LoginStepOrder ==
  (last.op = "login" /\ last.res.kind # "Panic")
    => LET tr == last.trace IN
       /\ Len(tr) >= 1
       /\ tr[1].op = "insert" /\ tr[1].key = id_key
       /\ \A i \in 1..Len(tr) :
            tr[i].op = "renew" => (i = Len(tr) /\ i > 1 /\ tr[1].ok)
       /\ \A i, j \in 1..Len(tr) :
            (i < j /\ tr[i].op = "insert" /\ tr[j].op = "insert")
              => WriteRank(tr[i].key) < WriteRank(tr[j].key)
       /\ last.res.kind = "Ok" => tr[Len(tr)].op = "renew"

(* a login with both deadlines on made its three writes and then renewed *)
C14_Witness ==
  /\ LoginOk
  /\ Len(last.trace) = 4
  /\ last.trace[2].key = login_unix_timestamp_key
  /\ last.trace[3].key = last_visit_unix_timestamp_key
  /\ last.trace[4].op = "renew"

(* C15: with no IdentityInner in the request extensions, login and extract   *)
(* end in the panic, never in a typed error or a success, and they write      *)
(* nothing to the session and do not renew it.                               *)
C15_MissingInnerPanics ==
  ~ext
    => /\ handles = 0
       /\ last.op \in {"login", "extract"}
            => /\ last.res = Res("Panic")
               /\ last.trace = <<>>
               /\ session = last.pre

(* login was called on a request the middleware never touched *)
C15_Witness ==
  /\ ~ext
  /\ last.op = "login"
  /\ last.res = Res("Panic")
  /\ session = last.pre

QueryOps == {"id", "extract", "logged_at", "last_visited_at"}

(* C16: id(), extract, logged_at() and last_visited_at() have no side        *)
(* effects: whether they succeed or fail, the session (attributes,           *)
(* identifier, purge status) and the configuration are the same after the    *)
(* call as before.                                                           *)
C16_QueriesHaveNoSideEffects ==
  [][last'.op \in QueryOps => UNCHANGED <<session, inner, ext>>]_vars

(* logged_at() failed on an out-of-range timestamp and left the session alone *)
C16_Witness ==
  /\ last.op = "logged_at"
  /\ last.res = Res("SessionExpiryError")
  /\ session = last.pre

(* every identity key is already gone from a session *)
IdentityKeysAbsent(sess) == \A k \in IdentityKeys : sess.attrs[k] = Absent

(* C17: logout reports no failure and is idempotent: a logout on a session   *)
(* on which logout has already run (identity keys absent, or session         *)
(* purged) leaves the session exactly as it was, under both policies.        *)
C17_LogoutIdempotent ==
  last.op = "logout"
    => /\ last.res = Res("Ok")
       /\ logout(inner, session) = session
       /\ (last.pre.purged \/ IdentityKeysAbsent(last.pre)) => session = last.pre

(* a second handle logged out of a session the first had already purged *)
C17_Witness ==
  /\ last.op = "logout"
  /\ last.pre.purged
  /\ session = last.pre

(* C18 as stated: after logout under DeleteIdentityKeys none of the three    *)
(* identity attributes remains, for every flag combination.                  *)
C18_LogoutRemovesAllIdentityKeys ==
  (last.op = "logout" /\ inner.logout_behaviour = "DeleteIdentityKeys")
    => IdentityKeysAbsent(session)

(* C18 amended: after logout under DeleteIdentityKeys the id never remains,  *)
(* and a timestamp is removed when its deadline tracking is enabled and left *)
(* as it was when it is disabled.                                            *)
C18_LogoutRemovesEnabledKeys ==
  (last.op = "logout" /\ inner.logout_behaviour = "DeleteIdentityKeys")
    => /\ session.attrs[id_key] = Absent
       /\ session.attrs[login_unix_timestamp_key]
            = IF inner.is_login_deadline_enabled THEN Absent
              ELSE last.pre.attrs[login_unix_timestamp_key]
       /\ session.attrs[last_visit_unix_timestamp_key]
            = IF inner.is_visit_deadline_enabled THEN Absent
              ELSE last.pre.attrs[last_visit_unix_timestamp_key]

(* set_last_visited_at ran with visit-deadline tracking disabled and its     *)
(* timestamp outlived the logout                                             *)
C18_Witness ==
  /\ last.op = "logout"
  /\ inner.logout_behaviour = "DeleteIdentityKeys"
  /\ ~inner.is_visit_deadline_enabled
  /\ session.attrs[id_key] = Absent
  /\ session.attrs[last_visit_unix_timestamp_key] = Num(1)

(* C19: extract and id() agree on every session state: both succeed with the *)
(* stored string, or extract fails with MissingIdentity and id() with        *)
(* LostIdentity, or extract fails with InvalidIdType and id() with a session *)
(* read error.                                                               *)
C19_ExtractAgreesWithId ==
  LET e == extract(session)
      i == id(session)
  IN /\ e.kind = "Ok" <=> i.kind = "Ok"
     /\ e.kind = "Ok" => (i = e /\ i.s = session.attrs[id_key].s)
     /\ e = Res("MissingIdentity") => i = Res("LostIdentity")
     /\ e.kind = "InvalidIdType" => i = Res("SessionGetError")
     /\ e.kind \in {"Ok", "MissingIdentity", "InvalidIdType"}

(* extract refused a bool id, which id() cannot read either *)
C19_Witness ==
  /\ last.op = "extract"
  /\ last.res = InvalidIdType("bool")
  /\ id(session) = Res("SessionGetError")

(* C20: when login returns LoginError the session has not been renewed by    *)
(* that call, and the writes that succeeded before the failing one stay in   *)
(* the session.                                                              *)
C20_FailedLoginNoRenewNoRollback ==
  LoginFailed
    => /\ session.sid = last.pre.sid
       /\ \A i \in 1..Len(last.trace) :
            /\ last.trace[i].op # "renew"
            /\ last.trace[i].ok
                 => IF last.trace[i].key = id_key
                    THEN session.attrs[id_key] = Str(last.arg)
                    ELSE /\ session.attrs[last.trace[i].key].kind = "number"
                         /\ session.attrs[last.trace[i].key].s = ""
                         /\ session.attrs[last.trace[i].key].n \in last.t0..last.t1

(* the last-visit write failed; the new id and login timestamp stayed *)
C20_Witness ==
  /\ LoginFailed
  /\ last.fail = last_visit_unix_timestamp_key
  /\ last.pre.attrs[id_key] # Str(last.arg)
  /\ session.attrs[id_key] = Str(last.arg)
  /\ last.pre.attrs[login_unix_timestamp_key] = Absent
  /\ session.attrs[login_unix_timestamp_key].kind = "number"
  /\ session.sid = last.pre.sid

====
